---- MODULE Spec2Model ----
(***************************************************************************)
(* Multi-provider AI response orchestration: the AIResponse document, the  *)
(* provider caller (ai.service) and the request handlers of the AI         *)
(* controllers, with the document store's update primitives.               *)
(***************************************************************************)
EXTENDS Integers, Sequences, FiniteSets, TLC

\* ---------------------------------------------------------------- bounds
\* providers taken from the head of the provider list, documents created,
\* length of a requested provider list, requests served, writes of endTime
\* told apart, authenticated users
NumModels == 2
MaxAgg == 2
MaxReq == 2
MaxOps == 3
MaxEndTime == 2
MaxUsers == 2

\* ------------------------------------------------------------- constants
AllModels == <<"gemini", "openai", "deepseek", "microsoft", "llama">>

models == SubSeq(AllModels, 1, NumModels)

ModelSet == {models[i] : i \in 1..Len(models)}

Ids == 1..MaxAgg

\* req.user._id of the authenticated callers
Users == 1..MaxUsers

\* no previousResponseId in the payload
NoPrev == 0

\* an id that no document has
NoSuchId == MaxAgg + 1

NoModel == ""

NoMsg == ""

\* a token count reported by a successful upstream answer
UpstreamTokens == 42

MockTokens == 50

\* the longest prompt generateAIResponseValidation accepts, and its limits of
\* settings.temperature and settings.maxTokens
MaxPromptLen == 10000

MaxTemperature == 2

MaxMaxTokens == 8000

\* no projectId in the payload
NoProject == 0

\* ----------------------------------------------------------------- state
VARIABLES
    testMode,   \* AIService.testMode
    hasKey,     \* provider -> its apiKey is configured
    db,         \* the AIResponse collection: id -> document
    nextId,     \* next fresh document id
    calls,      \* <<id, model>> -> provider calls dispatched by submit, not yet completed
    procs,      \* handlers suspended on a provider call
    res,        \* the last request and its HTTP response (code 0: not yet answered)
    ops,        \* number of requests served
    projects,   \* the Project collection: id -> settings.enabledModels
    requested,  \* id -> settings.enabledModels the document was created with
    deleted,    \* ids removed by deleteAIResponse
    overlapped, \* <<id, model, by>>: while the handler for (id, model) has been
                \* awaiting its provider calls, the handler for (id, by) has
                \* saved the document (model "" stands for retryFailed)
    dispatch,   \* id -> the prompt and settings.previousResponseId submit handed
                \* to generateIndependentResponses
    sent,       \* the upstream requests of the last step that called providers:
                \* the document, whether findById of the previous response
                \* returned, and provider -> messages
    lim         \* documents, requests, length of the provider list, callers and
                \* previousResponseId values this run is limited to

vars == <<testMode, hasKey, db, nextId, calls, procs, res, ops, projects, requested,
          deleted, overlapped, dispatch, sent, lim>>

cfg == <<testMode, hasKey>>

ctx == <<dispatch, sent>>

\* ------------------------------------------------------ provider registry
\* faulty variant of enabled: test mode does not enable a provider
enabled_KeyOnly(m) == hasKey[m]

enabled(m) == hasKey[m] \/ testMode

getEnabledProviders == SelectSeq(models, LAMBDA m : enabled(m))

\* ------------------------------------------------------- provider results
ZeroTokens == [prompt |-> 0, completion |-> 0, total |-> 0]

PendingResult(m) ==
    [model |-> m, status |-> "pending", response |-> "", errorMessage |-> NoMsg,
     tokens |-> ZeroTokens, isEdited |-> FALSE]

\* faulty variant of ErrorResult: the error is not described
ErrorResult_NoMessage(m) ==
    [model |-> m, status |-> "error", response |-> "", errorMessage |-> NoMsg,
     tokens |-> ZeroTokens, isEdited |-> FALSE]

ErrorResult(m) ==
    [model |-> m, status |-> "error", response |-> "", errorMessage |-> "err",
     tokens |-> ZeroTokens, isEdited |-> FALSE]

SuccessResult(m, text, t) ==
    [model |-> m, status |-> "success", response |-> text, errorMessage |-> NoMsg,
     tokens |-> t, isEdited |-> FALSE]

generateMockResponse(m) ==
    {SuccessResult(m, "gen", [prompt |-> (MockTokens * 7) \div 10,
                              completion |-> (MockTokens * 3) \div 10,
                              total |-> MockTokens])}

\* response.data.usage of an upstream answer: every count reported, or the
\* total alone
FullUsage ==
    [prompt_tokens |-> UpstreamTokens, completion_tokens |-> UpstreamTokens,
     total_tokens |-> 2 * UpstreamTokens]

PartialUsage == [total_tokens |-> UpstreamTokens]

\* usage.f || 0
UsageOr0(usage, f) == IF f \in DOMAIN usage THEN usage[f] ELSE 0

\* the tokens of callOpenRouter's success result
UsageTokens(usage) ==
    [prompt |-> UsageOr0(usage, "prompt_tokens"),
     completion |-> UsageOr0(usage, "completion_tokens"),
     total |-> UsageOr0(usage, "total_tokens")]

\* the prompt of a submit: the text user u typed for document n
Prompt(u, n) == [by |-> u, n |-> n]

\* faulty variant of callMessages: the earlier turn is put after the current prompt
callMessages_HistoryLast(coll, m, prompt, prev, found) ==
    LET history ==
            IF prev # NoPrev /\ found /\ prev \in DOMAIN coll
            THEN <<[role |-> "user", content |-> coll[prev].prompt]>> \o
                 (IF m \in DOMAIN coll[prev].results /\ coll[prev].results[m].response # ""
                  THEN <<[role |-> "assistant", content |-> coll[prev].results[m].response]>>
                  ELSE <<>>)
            ELSE <<>>
    IN  <<[role |-> "user", content |-> prompt]>> \o history

\* the messages callOpenRouter sends: when settings.previousResponseId is given
\* and findById returns a document (found is FALSE when it raises), that
\* document's prompt and, if it is not empty, the text of its result for the same
\* provider; then the current prompt
callMessages(coll, m, prompt, prev, found) ==
    LET history ==
            IF prev # NoPrev /\ found /\ prev \in DOMAIN coll
            THEN <<[role |-> "user", content |-> coll[prev].prompt]>> \o
                 (IF m \in DOMAIN coll[prev].results /\ coll[prev].results[m].response # ""
                  THEN <<[role |-> "assistant", content |-> coll[prev].results[m].response]>>
                  ELSE <<>>)
            ELSE <<>>
    IN  history \o <<[role |-> "user", content |-> prompt]>>

\* the providers of ms whose call reaches axios.post: enabled, no mock answer,
\* an apiKey
Upstream(ms) == {m \in ms : enabled(m) /\ ~(testMode /\ ~hasKey[m]) /\ hasKey[m]}

\* the ways AIResponse.findById(previousResponseId) can end: TRUE for a return,
\* FALSE for a raise
Lookups(prev) == IF prev = NoPrev THEN {TRUE} ELSE BOOLEAN

\* the upstream requests of one step that calls the providers ms for document a
UpstreamRequests(a, ms, prompt, prev, found) ==
    [a |-> a,
     lookup |-> found,
     messages |-> [m \in Upstream(ms) |-> callMessages(db, m, prompt, prev, found)]]

\* the results one call of callOpenRouter can return
callOpenRouter(m) ==
    IF ~enabled(m) THEN {ErrorResult(m)}
    ELSE IF testMode /\ ~hasKey[m] THEN generateMockResponse(m)
    ELSE {SuccessResult(m, "gen", UsageTokens(FullUsage)),
          SuccessResult(m, "", UsageTokens(PartialUsage)),
          ErrorResult(m)}

\* aiService.generateSingleModelResponse: throws for a provider that is not enabled
generateSingleModelResponse(m) ==
    IF ~enabled(m) THEN {[thrown |-> TRUE, result |-> ErrorResult(m)]}
    ELSE {[thrown |-> FALSE, result |-> r] : r \in callOpenRouter(m)}

\* --------------------------------------------------- the AIResponse model
CountStatus(doc, st) ==
    Cardinality({m \in DOMAIN doc.results : doc.results[m].status = st})

RECURSIVE SumTokens(_, _)
SumTokens(doc, i) ==
    IF i > Len(models) THEN 0
    ELSE (IF models[i] \in DOMAIN doc.results /\ doc.results[models[i]].status = "success"
          THEN doc.results[models[i]].tokens.total ELSE 0) + SumTokens(doc, i + 1)

\* the hook's condition for writing endTime and totalDuration: one of its two
\* terminal branches is taken
EndsNow(doc) ==
    LET completed == CountStatus(doc, "success")
        failed    == CountStatus(doc, "error")
    IN  \/ completed = doc.totalModels
        \/ (completed > 0 \/ failed > 0) /\ completed + failed = doc.totalModels

\* this.endTime = new Date(): endTime is kept as the number of times it has been
\* written, 0 for unset, counted up to MaxEndTime
Now(t) == IF t < MaxEndTime THEN t + 1 ELSE t

\* aiResponseSchema.pre('save')
PreSave(doc) ==
    LET completed == CountStatus(doc, "success")
        failed    == CountStatus(doc, "error")
    IN  [doc EXCEPT
            !.completedModels = completed,
            !.failedModels = failed,
            !.totalTokensUsed = SumTokens(doc, 1),
            !.overallStatus =
                IF completed = doc.totalModels THEN "completed"
                ELSE IF (completed > 0 \/ failed > 0) /\ completed + failed = doc.totalModels
                     THEN (IF completed > 0 THEN "partial" ELSE "failed")
                     ELSE @,
            !.endTime = IF EndsNow(doc) THEN Now(@) ELSE @]

\* document.save() of a loaded document: the result fields the handler assigned
\* are written whole, a counter or status path is written only when its
\* in-memory value differs from the loaded one, every other path is left alone
SaveLoaded(cur, base, mem, assigned) ==
    [results |-> [m \in DOMAIN cur.results \cup assigned |->
                    IF m \in assigned THEN mem.results[m] ELSE cur.results[m]],
     totalModels |-> IF mem.totalModels # base.totalModels
                     THEN mem.totalModels ELSE cur.totalModels,
     completedModels |-> IF mem.completedModels # base.completedModels
                         THEN mem.completedModels ELSE cur.completedModels,
     failedModels |-> IF mem.failedModels # base.failedModels
                      THEN mem.failedModels ELSE cur.failedModels,
     totalTokensUsed |-> IF mem.totalTokensUsed # base.totalTokensUsed
                         THEN mem.totalTokensUsed ELSE cur.totalTokensUsed,
     overallStatus |-> IF mem.overallStatus # base.overallStatus
                       THEN mem.overallStatus ELSE cur.overallStatus,
     enabledModels |-> IF mem.enabledModels # base.enabledModels
                       THEN mem.enabledModels ELSE cur.enabledModels,
     endTime |-> IF EndsNow(mem) THEN Now(cur.endTime) ELSE cur.endTime,
     projectId |-> cur.projectId,
     userId |-> cur.userId,
     prompt |-> cur.prompt,
     selectedModel |-> cur.selectedModel]

NoBody == [none |-> TRUE]

\* faulty variant of findOne: the filter has no userId
findOne_AnyUser(coll, a, u) == a \in DOMAIN coll

\* AIResponse.findOne({ _id: id, userId }) finds a document
findOne(coll, a, u) == a \in DOMAIN coll /\ coll[a].userId = u

Respond(u, op, a, m, code, body) ==
    [u |-> u, op |-> op, a |-> a, m |-> m, code |-> code, body |-> body]

\* ----------------------------------------------------------------- submit
SeqSet(q) == {q[i] : i \in 1..Len(q)}

\* the provider lists of at most n entries
RequestsUpTo(n) == UNION {[1..k -> ModelSet] : k \in 1..n}

Requests == RequestsUpTo(MaxReq)

\* req.body of POST /generate: the length of the trimmed prompt, the projectId,
\* the previousResponseId and the three settings
Payload(len, pid, prev, temp, maxTok, req) ==
    [promptLen |-> len, projectId |-> pid, previousResponseId |-> prev,
     temperature |-> temp, maxTokens |-> maxTok, enabledModels |-> req]

\* payloads the validation rejects: empty prompt, over-long prompt, temperature
\* and maxTokens out of range, a provider name outside the list, no provider
InvalidPayloads ==
    {Payload(0, NoProject, NoPrev, 1, 1, models),
     Payload(MaxPromptLen + 1, NoProject, NoPrev, 1, 1, models),
     Payload(1, NoProject, NoPrev, MaxTemperature + 1, 1, models),
     Payload(1, NoProject, NoPrev, 1, MaxMaxTokens + 1, models),
     Payload(1, NoProject, NoPrev, 1, 1, <<"bogus">>),
     Payload(1, NoProject, NoPrev, 1, 1, <<>>)}

\* the payloads a client sends when the Project collection holds pids, it names
\* one of prevs as the previous response and one of reqs as its provider list
Payloads(pids, prevs, reqs) ==
    {Payload(1, pid, prev, 1, 1, req) :
        pid \in pids \cup {NoProject}, prev \in prevs, req \in reqs}
        \cup InvalidPayloads

\* faulty variant of generateAIResponseValidation: the prompt has no upper limit
generateAIResponseValidation_NoMax(payload) ==
    /\ payload.promptLen >= 1
    /\ payload.temperature >= 0 /\ payload.temperature <= MaxTemperature
    /\ payload.maxTokens >= 1 /\ payload.maxTokens <= MaxMaxTokens
    /\ Len(payload.enabledModels) >= 1
    /\ SeqSet(payload.enabledModels) \subseteq SeqSet(AllModels)

\* generateAIResponseValidation.validate succeeds
generateAIResponseValidation(payload) ==
    /\ payload.promptLen >= 1 /\ payload.promptLen <= MaxPromptLen
    /\ payload.temperature >= 0 /\ payload.temperature <= MaxTemperature
    /\ payload.maxTokens >= 1 /\ payload.maxTokens <= MaxMaxTokens
    /\ Len(payload.enabledModels) >= 1
    /\ SeqSet(payload.enabledModels) \subseteq SeqSet(AllModels)

Proc(op, a, m, base, failed) == [op |-> op, a |-> a, m |-> m, base |-> base, failed |-> failed]

\* faulty variant of InsertDocument: the write has not reached the collection
\* when the handler goes on
InsertDocument_NotAwaited(coll, id, doc) == coll

\* await aiResponse.save() of a new document
InsertDocument(coll, id, doc) ==
    [a \in DOMAIN coll \cup {id} |-> IF a = id THEN doc ELSE coll[a]]

\* generateAIResponse up to the return of await aiResponse.save()
generateAIResponse(u, payload) ==
    LET req == payload.enabledModels
        projectsAfter == IF payload.projectId = NoProject
                         THEN Append(projects, models) ELSE projects
        projectId == IF payload.projectId = NoProject
                     THEN Len(projects) + 1 ELSE payload.projectId
        modelsToUse == SelectSeq(req, LAMBDA m : m \in SeqSet(getEnabledProviders))
        doc == PreSave([results |-> [m \in SeqSet(modelsToUse) |-> PendingResult(m)],
                        projectId |-> projectId,
                        userId |-> u,
                        prompt |-> Prompt(u, nextId),
                        totalModels |-> Len(modelsToUse),
                        completedModels |-> 0,
                        failedModels |-> 0,
                        totalTokensUsed |-> 0,
                        overallStatus |-> "processing",
                        endTime |-> 0,
                        enabledModels |-> modelsToUse,
                        \* selectedModel is no path of aiResponseSchema: the
                        \* value given to the constructor is not stored
                        selectedModel |-> NoModel])
    IN  /\ ops < lim.ops
        /\ ops' = ops + 1
        /\ IF ~generateAIResponseValidation(payload)
           THEN /\ res' = Respond(u, "submit", 0, NoModel, 400, [error |-> "validation"])
                /\ UNCHANGED <<db, nextId, procs, projects, requested, dispatch>>
           ELSE IF Len(modelsToUse) = 0
           THEN /\ res' = Respond(u, "submit", 0, NoModel, 400, [error |-> "providers"])
                /\ projects' = projectsAfter
                /\ UNCHANGED <<db, nextId, procs, requested, dispatch>>
           ELSE /\ nextId <= lim.aggs
                /\ projects' = projectsAfter
                /\ db' = InsertDocument(db, nextId, doc)
                /\ nextId' = nextId + 1
                /\ requested' = [a \in DOMAIN requested \cup {nextId} |->
                                    IF a = nextId THEN modelsToUse ELSE requested[a]]
                /\ procs' = procs \cup {Proc("submit", nextId, NoModel, doc, req)}
                /\ res' = Respond(u, "submit", nextId, NoModel, 0, NoBody)
                /\ dispatch' = [a \in DOMAIN dispatch \cup {nextId} |->
                                   IF a = nextId
                                   THEN [prompt |-> Prompt(u, nextId),
                                         previousResponseId |-> payload.previousResponseId]
                                   ELSE dispatch[a]]
        /\ UNCHANGED <<calls, deleted, overlapped, lim, cfg, sent>>

\* generateAIResponse from the return of save(): the 201 response, then the
\* call of generateIndependentResponses, which starts one provider call for
\* each entry of modelsToUse
generateAIResponseRespond(p) ==
    /\ p \in procs
    /\ p.op = "submit"
    /\ procs' = procs \ {p}
    /\ res' = Respond(p.base.userId, "submit", p.a, NoModel, 201,
                      [doc |-> p.base, req |-> p.failed,
                       \* no other handler has touched the document since its save
                       quiet |-> /\ p.a \in DOMAIN db
                                 /\ db[p.a] = p.base
                                 /\ \A q \in procs \ {p} : q.a # p.a])
    /\ calls' = [k \in DOMAIN calls |->
                   IF k[1] = p.a
                   THEN Cardinality({i \in 1..Len(p.base.enabledModels) :
                                        p.base.enabledModels[i] = k[2]})
                   ELSE calls[k]]
    /\ UNCHANGED <<db, nextId, ops, projects, requested, deleted, overlapped, lim, cfg, ctx>>

\* faulty variant of CompletionPatch: the whole result set is written back from
\* the state at dispatch time (read-modify-write)
CompletionPatch_Stale(cur, m, o) ==
    [cur EXCEPT !.results = [x \in DOMAIN cur.results \cup {m} |->
                                IF x = m THEN o.result ELSE PendingResult(x)]]

\* faulty variant of CompletionPatch: the patch increments the counter
CompletionPatch_Inc(cur, m, o) ==
    [cur EXCEPT !.results = [x \in DOMAIN cur.results \cup {m} |->
                                IF x = m THEN o.result ELSE cur.results[x]],
                !.completedModels = IF o.result.status = "success" THEN @ + 1 ELSE @]

\* faulty variant of CompletionPatch: the patch also sets the overall status
\* from the result it carries
CompletionPatch_LastWins(cur, m, o) ==
    [cur EXCEPT !.results = [x \in DOMAIN cur.results \cup {m} |->
                                IF x = m THEN o.result ELSE cur.results[x]],
                !.overallStatus = IF o.result.status = "success" THEN "completed" ELSE "failed"]

\* the update document of one iteration of generateIndependentResponses, applied
\* by findByIdAndUpdate: the provider's field is set, nothing else
CompletionPatch(cur, m, o) ==
    [cur EXCEPT !.results = [x \in DOMAIN cur.results \cup {m} |->
                                IF x = m THEN o.result ELSE cur.results[x]]]

\* faulty variant of findByIdAndUpdate: the update inserts the document when
\* none has the id
findByIdAndUpdate_Upsert(coll, a, m, o) ==
    [x \in DOMAIN coll \cup {a} |->
        IF x # a THEN coll[x]
        ELSE IF a \in DOMAIN coll THEN CompletionPatch(coll[a], m, o)
        ELSE [results |-> [y \in {m} |-> o.result]]]

\* AIResponse.findByIdAndUpdate(responseId, updateData, { new: true }): the
\* document with the id is updated, no document is inserted
findByIdAndUpdate(coll, a, m, o) ==
    [x \in DOMAIN coll |-> IF x = a THEN CompletionPatch(coll[x], m, o) ELSE coll[x]]

\* faulty variant of generateIndependentResponses: the provider calls of one
\* document are awaited together, and an error outcome abandons the others
generateIndependentResponses_FailFast(a, m) ==
    /\ calls[<<a, m>>] > 0
    /\ \E o \in generateSingleModelResponse(m) :
          /\ db' = findByIdAndUpdate(db, a, m, o)
          /\ calls' = IF o.result.status = "error"
                      THEN [k \in DOMAIN calls |-> IF k[1] = a THEN 0 ELSE calls[k]]
                      ELSE [calls EXCEPT ![<<a, m>>] = @ - 1]
    /\ \E found \in Lookups(dispatch[a].previousResponseId) :
          sent' = UpstreamRequests(a, {m}, dispatch[a].prompt,
                                   dispatch[a].previousResponseId, found)
    /\ UNCHANGED <<nextId, procs, res, ops, projects, requested, deleted, overlapped, lim, cfg,
                   dispatch>>

\* one iteration of generateIndependentResponses, from the return of the
\* provider call
generateIndependentResponses(a, m) ==
    /\ calls[<<a, m>>] > 0
    /\ \E o \in generateSingleModelResponse(m) : db' = findByIdAndUpdate(db, a, m, o)
    /\ calls' = [calls EXCEPT ![<<a, m>>] = @ - 1]
    /\ \E found \in Lookups(dispatch[a].previousResponseId) :
          sent' = UpstreamRequests(a, {m}, dispatch[a].prompt,
                                   dispatch[a].previousResponseId, found)
    /\ UNCHANGED <<nextId, procs, res, ops, projects, requested, deleted, overlapped, lim, cfg,
                   dispatch>>

\* ------------------------------------------------------------ retryFailed

\* faulty variant of failedModelsOf: every provider without a success counts as failed
failedModelsOf_NotSuccess(doc) ==
    SelectSeq(models, LAMBDA m : m \in DOMAIN doc.results /\ doc.results[m].status # "success")

\* retryFailedResponses: "Get failed models"
failedModelsOf(doc) ==
    SelectSeq(models, LAMBDA m : m \in DOMAIN doc.results /\ doc.results[m].status = "error")

\* the two handlers that run one provider in the background
Singles == {"generateSingle", "retrySingle"}

\* the handlers that hold a loaded copy of p's document while p saves it
Siblings(p) ==
    {q \in procs \ {p} : q.op \in Singles \cup {"retryFailed"} /\ q.a = p.a}

\* the record of overlapped once p has saved
Overlap(p) ==
    {k \in overlapped : ~(k[1] = p.a /\ k[2] = p.m)} \cup
        (IF p.a \in DOMAIN db THEN {<<q.a, q.m, p.m>> : q \in Siblings(p)} ELSE {})

\* faulty variant of retryFailedResponses: the response is sent before the
\* provider calls are awaited
retryFailedResponses_Early(u, a) ==
    /\ ops < lim.ops
    /\ ops' = ops + 1
    /\ IF ~findOne(db, a, u)
       THEN /\ res' = Respond(u, "retryFailed", a, NoModel, 404, NoBody)
            /\ UNCHANGED procs
       ELSE IF Len(failedModelsOf(db[a])) = 0
       THEN /\ res' = Respond(u, "retryFailed", a, NoModel, 400, NoBody)
            /\ UNCHANGED procs
       ELSE /\ res' = Respond(u, "retryFailed", a, NoModel, 200,
                              [doc |-> db[a], called |-> SeqSet(failedModelsOf(db[a]))])
            /\ procs' = procs \cup {Proc("retryFailed", a, NoModel, db[a], failedModelsOf(db[a]))}
    /\ UNCHANGED <<db, nextId, calls, projects, requested, deleted, overlapped, lim, cfg, ctx>>

\* retryFailedResponses up to the await of aiService.generateMultiModelResponse
retryFailedResponses(u, a) ==
    /\ ops < lim.ops
    /\ ops' = ops + 1
    /\ IF ~findOne(db, a, u)
       THEN /\ res' = Respond(u, "retryFailed", a, NoModel, 404, NoBody)
            /\ UNCHANGED procs
       ELSE IF Len(failedModelsOf(db[a])) = 0
       THEN /\ res' = Respond(u, "retryFailed", a, NoModel, 400, NoBody)
            /\ UNCHANGED procs
       ELSE /\ res' = Respond(u, "retryFailed", a, NoModel, 0, NoBody)
            /\ procs' = procs \cup {Proc("retryFailed", a, NoModel, db[a], failedModelsOf(db[a]))}
    /\ UNCHANGED <<db, nextId, calls, projects, requested, deleted, overlapped, lim, cfg, ctx>>

\* aiService.generateMultiModelResponse: the providers it calls
availableModels(enabledModels) == SelectSeq(enabledModels, LAMBDA m : enabled(m))

\* retryFailedResponses from the return of generateMultiModelResponse to the response
retryFailedSave(p) ==
    LET avail == {availableModels(p.failed)[i] : i \in 1..Len(availableModels(p.failed))}
    IN  /\ p \in procs
        /\ p.op = "retryFailed"
        /\ procs' = procs \ {p}
        /\ IF avail = {} \/ p.a \notin DOMAIN db
           THEN /\ res' = Respond(p.base.userId, "retryFailed", p.a, NoModel, 500, [called |-> {}])
                /\ UNCHANGED db
           ELSE \E responses \in [avail -> UNION {callOpenRouter(m) : m \in avail}] :
                  /\ \A m \in avail : responses[m] \in callOpenRouter(m)
                  /\ LET mem == PreSave([p.base EXCEPT !.results =
                                    [m \in DOMAIN p.base.results |->
                                        IF m \in avail THEN responses[m]
                                        ELSE p.base.results[m]]])
                     IN  /\ db' = [db EXCEPT ![p.a] = SaveLoaded(db[p.a], p.base, mem, avail)]
                         /\ res' = Respond(p.base.userId, "retryFailed", p.a, NoModel, 200,
                                           [doc |-> mem, called |-> avail])
        /\ overlapped' = IF avail = {} THEN {k \in overlapped : ~(k[1] = p.a /\ k[2] = p.m)}
                          ELSE Overlap(p)
        /\ sent' = UpstreamRequests(p.a, avail, p.base.prompt, NoPrev, TRUE)
        /\ UNCHANGED <<nextId, calls, ops, projects, requested, deleted, lim, cfg, dispatch>>

\* -------------------------------------------------------- selectPreferred
\* selectPreferredResponse's check of the selected field
SelectionExists(doc, m) == m \in DOMAIN doc.results /\ doc.results[m].response # ""

\* the native-driver findOneAndUpdate of selectPreferredResponse in part_008
SelectUpdate(cur, m) ==
    [cur EXCEPT !.results = [x \in DOMAIN cur.results \cap {m} |-> cur.results[x]],
                !.selectedModel = m,
                !.overallStatus = "completed",
                !.enabledModels = <<m>>]

\* selectPreferredResponse of part_008, for a provider name, up to the await of
\* AIResponse.collection.findOneAndUpdate: the lookup and the check of the field
selectPreferredResponse(u, a, m) ==
    /\ ops < lim.ops
    /\ ops' = ops + 1
    /\ IF ~findOne(db, a, u)
       THEN /\ res' = Respond(u, "select", a, m, 404, NoBody)
            /\ UNCHANGED procs
       ELSE IF ~SelectionExists(db[a], m)
       THEN /\ res' = Respond(u, "select", a, m, 400, NoBody)
            /\ UNCHANGED procs
       ELSE /\ procs' = procs \cup {Proc("select", a, m, db[a], <<>>)}
            /\ res' = Respond(u, "select", a, m, 0, NoBody)
    /\ UNCHANGED <<db, nextId, calls, projects, requested, deleted, overlapped, lim, cfg, ctx>>

\* what the native findOneAndUpdate hands back when no document matches: null,
\* or a result object whose value is null, depending on the driver
NoMatch == {[found |-> FALSE, isNull |-> TRUE], [found |-> FALSE, isNull |-> FALSE]}

\* selectPreferredResponse of part_008 from the native findOneAndUpdate on
selectPreferredResponseWrite(p) ==
    /\ p \in procs
    /\ p.op = "select"
    /\ procs' = procs \ {p}
    /\ IF p.a \in DOMAIN db
       THEN /\ db' = [db EXCEPT ![p.a] = SelectUpdate(db[p.a], p.m)]
            /\ res' = Respond(p.base.userId, "select", p.a, p.m, 200, [doc |-> SelectUpdate(db[p.a], p.m)])
       ELSE /\ UNCHANGED db
            /\ \E r \in NoMatch :
                  res' = IF r.isNull
                         THEN Respond(p.base.userId, "select", p.a, p.m, 500, NoBody)
                         ELSE Respond(p.base.userId, "select", p.a, p.m, 200, [raw |-> r])
    /\ UNCHANGED <<nextId, calls, ops, projects, requested, deleted, overlapped, lim, cfg, ctx>>

\* the AIResponse.findOneAndUpdate of selectPreferredResponse in ai.controller.js
SelectUpdate_v1(cur, m) ==
    [cur EXCEPT !.results = [x \in DOMAIN cur.results \cap {m} |-> cur.results[x]],
                !.enabledModels = <<m>>,
                !.totalModels = 1,
                !.completedModels = 1,
                !.failedModels = 0,
                !.overallStatus = "completed"]

\* Project.updateOne({ _id: projectId }, { $set: { 'settings.enabledModels': [model] } })
ProjectUpdateOne(coll, pid, m) ==
    [x \in DOMAIN coll |-> IF x = pid THEN <<m>> ELSE coll[x]]

\* selectPreferredResponse of src/api/v1/ai/ai.controller.js up to the await of
\* AIResponse.findOneAndUpdate: the lookup and the check of the field
selectPreferredResponse_v1(u, a, m) ==
    /\ ops < lim.ops
    /\ ops' = ops + 1
    /\ IF ~findOne(db, a, u)
       THEN /\ res' = Respond(u, "select_v1", a, m, 404, NoBody)
            /\ UNCHANGED procs
       ELSE IF ~SelectionExists(db[a], m)
       THEN /\ res' = Respond(u, "select_v1", a, m, 400, NoBody)
            /\ UNCHANGED procs
       ELSE /\ procs' = procs \cup {Proc("select_v1", a, m, db[a], <<>>)}
            /\ res' = Respond(u, "select_v1", a, m, 0, NoBody)
    /\ UNCHANGED <<db, nextId, calls, projects, requested, deleted, overlapped, lim, cfg, ctx>>

\* selectPreferredResponse of src/api/v1/ai/ai.controller.js from the
\* findOneAndUpdate on: the Aggregate is narrowed, then Project.updateOne is
\* awaited inside the handler's try block; projectOk is whether that call
\* resolves. With no document left, reading aiResponse.projectId of null throws
selectPreferredResponseWrite_v1(p, projectOk) ==
    /\ p \in procs
    /\ p.op = "select_v1"
    /\ procs' = procs \ {p}
    /\ IF p.a \notin DOMAIN db
       THEN /\ res' = Respond(p.base.userId, "select_v1", p.a, p.m, 500, NoBody)
            /\ UNCHANGED <<db, projects>>
       ELSE /\ db' = [db EXCEPT ![p.a] = SelectUpdate_v1(db[p.a], p.m)]
            /\ IF projectOk
               THEN /\ projects' = ProjectUpdateOne(projects, db[p.a].projectId, p.m)
                    /\ res' = Respond(p.base.userId, "select_v1", p.a, p.m, 200,
                                      [doc |-> SelectUpdate_v1(db[p.a], p.m)])
               ELSE /\ UNCHANGED projects
                    /\ res' = Respond(p.base.userId, "select_v1", p.a, p.m, 500, NoBody)
    /\ UNCHANGED <<nextId, calls, ops, requested, deleted, overlapped, lim, cfg, ctx>>

\* ------------------------------------------------- single-model operations
\* updateSingleModelResponse with a non-empty response text
updateSingleModelResponse(u, a, m) ==
    /\ ops < lim.ops
    /\ ops' = ops + 1
    /\ IF ~findOne(db, a, u) \/ m \notin DOMAIN db[a].results
       THEN /\ res' = Respond(u, "edit", a, m, 404, NoBody)
            /\ UNCHANGED db
       ELSE LET mem == PreSave([db[a] EXCEPT !.results[m].response = "edit",
                                             !.results[m].isEdited = TRUE])
            IN  /\ db' = [db EXCEPT ![a] = SaveLoaded(db[a], db[a], mem, {m})]
                /\ res' = Respond(u, "edit", a, m, 200, [doc |-> mem])
    /\ UNCHANGED <<nextId, calls, procs, projects, requested, deleted, overlapped, lim, cfg, ctx>>

\* the status and response of the request bodies of PUT /:id/model a client sends; the
\* errorMessage it sends is empty and the tokens are zero
ManualUpdates == {[status |-> st, response |-> text] :
                    st \in {"pending", "success", "error"}, text \in {"", "edit"}}

\* updateModelResponse, the manual update, with the document's method
\* updateModelResponse: Object.assign on the provider's result and save(), which
\* rejects a result created without its required path model
updateModelResponse(u, a, m, data) ==
    /\ ops < lim.ops
    /\ ops' = ops + 1
    /\ IF ~findOne(db, a, u)
       THEN /\ res' = Respond(u, "update", a, m, 404, NoBody)
            /\ UNCHANGED db
       ELSE IF m \notin DOMAIN db[a].results
       THEN /\ res' = Respond(u, "update", a, m, 400, NoBody)
            /\ UNCHANGED db
       ELSE LET mem == PreSave([db[a] EXCEPT !.results[m].response = data.response,
                                             !.results[m].status = data.status,
                                             !.results[m].errorMessage = NoMsg,
                                             !.results[m].tokens = ZeroTokens])
            IN  /\ db' = [db EXCEPT ![a] = SaveLoaded(db[a], db[a], mem, {m})]
                /\ res' = Respond(u, "update", a, m, 200, [doc |-> mem])
    /\ UNCHANGED <<nextId, calls, procs, projects, requested, deleted, overlapped, lim, cfg, ctx>>

\* the first half of generateSingleModelResponse and retrySingleModelResponse:
\* the result is set to pending, the document saved and the response sent
SingleStart(u, op, a, m) ==
    LET mem == PreSave([db[a] EXCEPT !.results =
                           [x \in DOMAIN db[a].results \cup {m} |->
                               IF x = m THEN PendingResult(m) ELSE db[a].results[x]]])
        saved == SaveLoaded(db[a], db[a], mem, {m})
    IN  /\ db' = [db EXCEPT ![a] = saved]
        /\ res' = Respond(u, op, a, m, 200, [doc |-> mem])
        /\ procs' = procs \cup {Proc(op, a, m, mem, <<>>)}

\* generateSingleModelResponse of the ai-model controller up to the await of
\* aiService.generateSingleModelResponse
generateSingleModelResponseStart(u, a, m) ==
    /\ ops < lim.ops
    /\ ops' = ops + 1
    /\ IF ~findOne(db, a, u)
       THEN /\ res' = Respond(u, "generateSingle", a, m, 404, NoBody)
            /\ UNCHANGED <<db, procs>>
       ELSE IF m \notin SeqSet(db[a].enabledModels)
       THEN /\ res' = Respond(u, "generateSingle", a, m, 400, NoBody)
            /\ UNCHANGED <<db, procs>>
       ELSE SingleStart(u, "generateSingle", a, m)
    /\ UNCHANGED <<nextId, calls, projects, requested, deleted, overlapped, lim, cfg, ctx>>

\* retrySingleModelResponse up to the await of aiService.generateSingleModelResponse
retrySingleModelResponse(u, a, m) ==
    /\ ops < lim.ops
    /\ ops' = ops + 1
    /\ IF ~findOne(db, a, u)
       THEN /\ res' = Respond(u, "retrySingle", a, m, 404, NoBody)
            /\ UNCHANGED <<db, procs>>
       ELSE SingleStart(u, "retrySingle", a, m)
    /\ UNCHANGED <<nextId, calls, projects, requested, deleted, overlapped, lim, cfg, ctx>>

\* the background part of generateSingleModelResponse and of
\* retrySingleModelResponse: the provider's result, or the error result when the
\* call throws, is assigned to the document loaded by the first half and saved
retrySingleSave(p) ==
    /\ p \in procs
    /\ p.op \in Singles
    /\ procs' = procs \ {p}
    /\ \E o \in generateSingleModelResponse(p.m) :
          LET mem == PreSave([p.base EXCEPT !.results[p.m] = o.result])
          IN  db' = [x \in DOMAIN db |->
                        IF x = p.a THEN SaveLoaded(db[x], p.base, mem, {p.m}) ELSE db[x]]
    /\ overlapped' = Overlap(p)
    /\ sent' = UpstreamRequests(p.a, {p.m}, p.base.prompt, NoPrev, TRUE)
    /\ UNCHANGED <<nextId, calls, res, ops, projects, requested, deleted, lim, cfg, dispatch>>

\* deleteSingleModelResponse: the provider's field is unset and the document saved
deleteSingleModelResponse(u, a, m) ==
    /\ ops < lim.ops
    /\ ops' = ops + 1
    /\ IF ~findOne(db, a, u)
       THEN /\ res' = Respond(u, "deleteSingle", a, m, 404, NoBody)
            /\ UNCHANGED db
       ELSE LET mem == PreSave([db[a] EXCEPT !.results =
                                   [x \in DOMAIN db[a].results \ {m} |-> db[a].results[x]]])
                saved == SaveLoaded(db[a], db[a], mem, {})
            IN  /\ db' = [db EXCEPT ![a] = [saved EXCEPT !.results = mem.results]]
                /\ res' = Respond(u, "deleteSingle", a, m, 200, [doc |-> mem])
    /\ UNCHANGED <<nextId, calls, procs, projects, requested, deleted, overlapped, lim, cfg, ctx>>

\* ------------------------------------------------------------ clearSelection
\* faulty variant of RestoredModels: the list is left as the selection made it
RestoredModels_Keep(doc) == doc.enabledModels

\* the list selectPreferredResponse assigns to settings.enabledModels when the
\* selection is cleared
RestoredModels(doc) ==
    LET existingModels == SelectSeq(models, LAMBDA m : m \in DOMAIN doc.results)
    IN  IF Len(existingModels) > 0 THEN existingModels ELSE models

\* selectPreferredResponse of part_008 for model = '': "Handle clearing
\* selection (undo)". selectedModel is no path of aiResponseSchema, so the
\* assignment aiResponse.selectedModel = null is not part of what save() writes
selectPreferredResponseClear(u, a) ==
    /\ ops < lim.ops
    /\ ops' = ops + 1
    /\ IF ~findOne(db, a, u)
       THEN /\ res' = Respond(u, "clear", a, NoModel, 404, NoBody)
            /\ UNCHANGED db
       ELSE LET mem == PreSave([db[a] EXCEPT !.enabledModels = RestoredModels(db[a])])
                saved == SaveLoaded(db[a], db[a], mem, {})
            IN  /\ db' = [db EXCEPT ![a] = saved]
                /\ res' = Respond(u, "clear", a, NoModel, 200, [doc |-> mem])
    /\ UNCHANGED <<nextId, calls, procs, projects, requested, deleted, overlapped, lim, cfg, ctx>>

\* ------------------------------------------------------------------ delete
\* the provider calls of document a that submit started and that have not returned
InFlight(a) == {m \in ModelSet : calls[<<a, m>>] > 0}

\* deleteAIResponse
deleteAIResponse(u, a) ==
    /\ ops < lim.ops
    /\ ops' = ops + 1
    /\ IF ~findOne(db, a, u)
       THEN /\ res' = Respond(u, "delete", a, NoModel, 404, NoBody)
            /\ UNCHANGED <<db, deleted>>
       ELSE /\ db' = [x \in DOMAIN db \ {a} |-> db[x]]
            /\ deleted' = deleted \cup {a}
            /\ res' = Respond(u, "delete", a, NoModel, 200, [inFlight |-> InFlight(a)])
    /\ UNCHANGED <<nextId, calls, procs, projects, requested, overlapped, lim, cfg, ctx>>

\* ------------------------------------------------------------------- reads
\* faulty variant of getAIResponse: the document read is saved back
getAIResponse_Save(u, a) ==
    /\ ops < lim.ops
    /\ ops' = ops + 1
    /\ IF ~findOne(db, a, u)
       THEN /\ res' = Respond(u, "get", a, NoModel, 404, NoBody)
            /\ UNCHANGED db
       ELSE /\ res' = Respond(u, "get", a, NoModel, 200, [doc |-> db[a]])
            /\ db' = [db EXCEPT ![a] = SaveLoaded(db[a], db[a], PreSave(db[a]), {})]
    /\ UNCHANGED <<nextId, calls, procs, projects, requested, deleted, overlapped, lim, cfg, ctx>>

\* getAIResponse
getAIResponse(u, a) ==
    /\ ops < lim.ops
    /\ ops' = ops + 1
    /\ res' = IF ~findOne(db, a, u)
              THEN Respond(u, "get", a, NoModel, 404, NoBody)
              ELSE Respond(u, "get", a, NoModel, 200, [doc |-> db[a]])
    /\ UNCHANGED <<db, nextId, calls, procs, projects, requested, deleted, overlapped, lim, cfg, ctx>>

\* AIResponse.find({ userId }): the documents of one user
Owned(coll, u) == [a \in {x \in DOMAIN coll : coll[x].userId = u} |-> coll[a]]

\* listAIResponses without filters
listAIResponses(u) ==
    /\ ops < lim.ops
    /\ ops' = ops + 1
    /\ res' = Respond(u, "list", 0, NoModel, 200, [docs |-> Owned(db, u)])
    /\ UNCHANGED <<db, nextId, calls, procs, projects, requested, deleted, overlapped, lim, cfg, ctx>>

\* getAIStats without filters: the $group stage over the documents and the
\* provider status
getAIStats(u) ==
    /\ ops < lim.ops
    /\ ops' = ops + 1
    /\ res' = Respond(u, "stats", 0, NoModel, 200,
                      [totalRequests |-> Cardinality(DOMAIN Owned(db, u)),
                       completedRequests |->
                           Cardinality({a \in DOMAIN Owned(db, u) : db[a].overallStatus = "completed"}),
                       partialRequests |->
                           Cardinality({a \in DOMAIN Owned(db, u) : db[a].overallStatus = "partial"}),
                       failedRequests |->
                           Cardinality({a \in DOMAIN Owned(db, u) : db[a].overallStatus = "failed"}),
                       providerStatus |-> [m \in ModelSet |-> enabled(m)]])
    /\ UNCHANGED <<db, nextId, calls, procs, projects, requested, deleted, overlapped, lim, cfg, ctx>>

\* ------------------------------------------------------------ the machine
\* a run serves MaxOps requests on one document, or one request less on MaxAgg
\* documents
Quota(aggs, n, req, users, prevs) ==
    [aggs |-> aggs, ops |-> n, req |-> req, users |-> users, prevs |-> prevs]

Quotas ==
    {Quota(1, MaxOps, MaxReq, {1}, {NoPrev}), Quota(MaxAgg, MaxOps - 1, MaxReq, {1}, {NoPrev})}

\* a run of every user, whose submits name one provider and may name a
\* previous response
OwnerQuota == Quota(MaxAgg, MaxOps - 1, 1, Users, {NoPrev, NoSuchId} \cup Ids)

\* the values of previousResponseId a client sends: none, the id of a document
\* that has been created, an id of no document
Prevs == {r \in lim.prevs : r < nextId \/ r = NoSuchId}

Setup(quotas) ==
    /\ testMode \in BOOLEAN
    /\ hasKey \in [ModelSet -> BOOLEAN]
    /\ db = <<>>
    /\ projects = <<>>
    /\ requested = <<>>
    /\ deleted = {}
    /\ overlapped = {}
    /\ lim \in quotas
    /\ dispatch = <<>>
    /\ sent = [a |-> 0, lookup |-> TRUE, messages |-> <<>>]
    /\ nextId = 1
    /\ calls = [k \in Ids \X ModelSet |-> 0]
    /\ procs = {}
    /\ res = Respond(0, "none", 0, NoModel, 0, NoBody)
    /\ ops = 0

Init == Setup(Quotas)

OwnerInit == Setup({OwnerQuota})

Next ==
    \/ \E u \in lim.users, payload \in Payloads(DOMAIN projects, Prevs, RequestsUpTo(lim.req)) : generateAIResponse(u, payload)
    \/ \E p \in procs : generateAIResponseRespond(p)
    \/ \E a \in Ids, m \in ModelSet : generateIndependentResponses(a, m)
    \/ \E u \in lim.users, a \in Ids : retryFailedResponses(u, a)
    \/ \E p \in procs : retryFailedSave(p)
    \/ \E u \in lim.users, a \in Ids, m \in ModelSet : selectPreferredResponse(u, a, m)
    \/ \E p \in procs : selectPreferredResponseWrite(p)
    \/ \E u \in lim.users, a \in Ids, m \in ModelSet : selectPreferredResponse_v1(u, a, m)
    \/ \E p \in procs, projectOk \in BOOLEAN : selectPreferredResponseWrite_v1(p, projectOk)
    \/ \E u \in lim.users, a \in Ids, m \in ModelSet : updateSingleModelResponse(u, a, m)
    \/ \E u \in lim.users, a \in Ids, m \in ModelSet : generateSingleModelResponseStart(u, a, m)
    \/ \E u \in lim.users, a \in Ids, m \in ModelSet : retrySingleModelResponse(u, a, m)
    \/ \E p \in procs : retrySingleSave(p)
    \/ \E u \in lim.users, a \in Ids, m \in ModelSet : deleteSingleModelResponse(u, a, m)
    \/ \E u \in lim.users, a \in Ids : selectPreferredResponseClear(u, a)
    \/ \E u \in lim.users, a \in Ids : deleteAIResponse(u, a)
    \/ \E u \in lim.users, a \in Ids : getAIResponse(u, a)
    \/ \E u \in lim.users : listAIResponses(u)
    \/ \E u \in lim.users : getAIStats(u)

Spec == Init /\ [][Next]_vars

\* the requests of Next and the manual update
OwnerNext ==
    \/ Next
    \/ \E u \in lim.users, a \in Ids, m \in ModelSet, data \in ManualUpdates :
          updateModelResponse(u, a, m, data)

\* the machine with every endpoint, run for every user
OwnerSpec == OwnerInit /\ [][OwnerNext]_vars

\* ------------------------------------------------------------ properties

Selects == {"select", "select_v1"}

\* the last response is a selectPreferred success that carries the document
SelectedDoc == res.op \in Selects /\ res.code = 200 /\ "doc" \in DOMAIN res.body

\* overallStatus as the decision table gives it for a set of provider results
DecisionTable(doc) ==
    LET n == Cardinality(DOMAIN doc.results)
        c == CountStatus(doc, "success")
        f == CountStatus(doc, "error")
    IN  IF c = n THEN "completed"
        ELSE IF c + f = n /\ c > 0 THEN "partial"
        ELSE IF c + f = n THEN "failed"
        ELSE "processing"

\* the last response was the 201 of a submit and no other handler has touched
\* the document it created: only provider completions can have written to it
JustSubmitted == res.op = "submit" /\ res.code = 201 /\ res.body.quiet

AllCallsDone(a) == \A m \in ModelSet : calls[<<a, m>>] = 0

\* C1: the Aggregate returned by a successful submit that requests k distinct
\* enabled providers has exactly k results, all pending, totalCount = k,
\* completedCount = failedCount = 0 and overallStatus = processing.
C1_SubmitShape ==
    JustSubmitted =>
        LET d == res.body.doc
            k == Cardinality({m \in SeqSet(res.body.req) : enabled(m)})
        IN  /\ k >= 1
            /\ DOMAIN d.results = {m \in SeqSet(res.body.req) : enabled(m)}
            /\ \A m \in DOMAIN d.results : d.results[m].status = "pending"
            /\ d.totalModels = k
            /\ d.completedModels = 0
            /\ d.failedModels = 0
            /\ d.overallStatus = "processing"

\* C2: once every provider call of a submit has completed, the persisted
\* Aggregate has completedCount + failedCount = k, the overallStatus of the
\* decision table and totalTokensUsed = the sum over the success results.
C2_AllCompleted ==
    (JustSubmitted /\ AllCallsDone(res.a)) =>
        LET d == db[res.a]
        IN  /\ d.completedModels + d.failedModels = Cardinality(DOMAIN d.results)
            /\ d.overallStatus = DecisionTable(d)
            /\ d.totalTokensUsed = SumTokens(d, 1)

\* C3: after each single provider completion following a submit the persisted
\* counters equal the counts of success and error results and totalTokensUsed
\* the token sum of the success results.
C3_CountersFollowResults ==
    JustSubmitted =>
        LET d == db[res.a]
        IN  /\ d.completedModels = CountStatus(d, "success")
            /\ d.failedModels = CountStatus(d, "error")
            /\ d.totalTokensUsed = SumTokens(d, 1)

\* C4: a provider completion for provider m of Aggregate a leaves every other
\* provider's result on a, and every other Aggregate, unchanged.
C4_CompletionFrame ==
    [][\A k \in DOMAIN calls :
          calls'[k] < calls[k] =>
             /\ DOMAIN db' = DOMAIN db
             /\ \A x \in DOMAIN db \ {k[1]} : db'[x] = db[x]
             /\ k[1] \in DOMAIN db =>
                   /\ DOMAIN db'[k[1]].results \subseteq DOMAIN db[k[1]].results \cup {k[2]}
                   /\ \A m \in DOMAIN db[k[1]].results \ {k[2]} :
                         /\ m \in DOMAIN db'[k[1]].results
                         /\ db'[k[1]].results[m] = db[k[1]].results[m]]_vars

\* a completion has landed on an Aggregate whose sibling result was already
\* recorded, while a second Aggregate exists
C4_Witness ==
    /\ ops = 2
    /\ Cardinality(DOMAIN db) = 2
    /\ \E a \in DOMAIN db :
          /\ Cardinality(DOMAIN db[a].results) = 2
          /\ AllCallsDone(a)
          /\ \A m \in DOMAIN db[a].results : db[a].results[m].status # "pending"

\* C5: applying the same provider-completion patch twice gives the same
\* Aggregate as applying it once.
C5_PatchIdempotent ==
    \A a \in DOMAIN db : \A m \in DOMAIN db[a].results :
        \A o \in generateSingleModelResponse(m) :
            CompletionPatch(CompletionPatch(db[a], m, o), m, o) = CompletionPatch(db[a], m, o)

\* a completion patch has been applied to a submitted Aggregate
C5_Witness ==
    /\ JustSubmitted
    /\ \E m \in DOMAIN db[res.a].results : db[res.a].results[m].status = "success"

\* C6: two completion patches for different providers of one Aggregate give
\* the same Aggregate in either order.
C6_PatchesCommute ==
    \A a \in DOMAIN db : \A m1, m2 \in DOMAIN db[a].results :
        m1 # m2 =>
            \A o1 \in generateSingleModelResponse(m1), o2 \in generateSingleModelResponse(m2) :
                CompletionPatch(CompletionPatch(db[a], m1, o1), m2, o2)
                    = CompletionPatch(CompletionPatch(db[a], m2, o2), m1, o1)

\* both providers of a two-provider Aggregate have completed, one with success
\* and one with error
C6_Witness ==
    /\ JustSubmitted
    /\ AllCallsDone(res.a)
    /\ CountStatus(db[res.a], "success") = 1
    /\ CountStatus(db[res.a], "error") = 1

\* C7: after a successful selectPreferred(id, p) with p's result success, the
\* Aggregate has results {p}, selectedProvider = p, requestedProviders = {p},
\* overallStatus = completed, totalCount = completedCount = 1, failedCount = 0.
C7_SelectedShape ==
    (/\ SelectedDoc
     /\ res.m \in DOMAIN res.body.doc.results
     /\ res.body.doc.results[res.m].status = "success") =>
        LET d == res.body.doc
        IN  /\ DOMAIN d.results = {res.m}
            /\ d.selectedModel = res.m
            /\ d.enabledModels = <<res.m>>
            /\ d.overallStatus = "completed"
            /\ d.totalModels = 1
            /\ d.completedModels = 1
            /\ d.failedModels = 0

\* C8: selectPreferred(id, p) succeeds only when p's result has status success;
\* for an absent, pending or error result it answers 400.
C8_SelectNeedsSuccess ==
    (res.op \in Selects /\ res.code = 200) =>
        /\ SelectedDoc
        /\ res.m \in DOMAIN res.body.doc.results
        /\ res.body.doc.results[res.m].status = "success"

\* C9: retryFailed on an Aggregate without an error result answers 400, starts
\* no provider call and leaves the collection unchanged.
C9_NothingToRetry ==
    [][(/\ ops' = ops + 1
        /\ res'.op = "retryFailed"
        /\ res'.a \in DOMAIN db
        /\ CountStatus(db[res'.a], "error") = 0)
       => (res'.code = 400 /\ db' = db /\ procs' = procs /\ calls' = calls)]_vars

\* retryFailed was refused on an existing Aggregate
C9_Witness == res.op = "retryFailed" /\ res.code = 400 /\ res.a \in DOMAIN db

\* C10: retryFailed on an Aggregate with j >= 1 error results calls the provider
\* caller for exactly those j providers and overwrites exactly their results;
\* the results that were pending or success when it read the Aggregate keep
\* their value.
C10_RetryExactlyFailed ==
    [][\A p \in procs :
          (p.op = "retryFailed" /\ procs' = procs \ {p} /\ p.a \in DOMAIN db) =>
             /\ res'.code = 200
             /\ res'.body.called = SeqSet(p.failed)
             /\ \A m \in DOMAIN db[p.a].results \ SeqSet(p.failed) :
                   /\ m \in DOMAIN db'[p.a].results
                   /\ db'[p.a].results[m] = db[p.a].results[m]]_vars

\* a handler of submit for Aggregate a has saved the record and not yet answered
SubmitPending(a) == \E p \in procs : p.op = "submit" /\ p.a = a

\* C11: in every execution of submit the Aggregate record is created, all
\* providers pending, before the response is returned, and the response is
\* returned before any provider call for the Aggregate completes; no
\* completion patch is applied to an Aggregate that has not been created.
C11_CreateRespondComplete ==
    /\ [][/\ nextId' # nextId =>
                /\ nextId \in DOMAIN db'
                /\ DOMAIN db'[nextId].results # {}
                /\ \A m \in DOMAIN db'[nextId].results :
                      db'[nextId].results[m].status = "pending"
                /\ res'.code = 0
                /\ calls' = calls
          /\ (res' # res /\ res'.op = "submit" /\ res'.code = 201) =>
                /\ SubmitPending(res'.a)
                /\ res'.a \in DOMAIN db \cup deleted
                /\ \A m \in ModelSet : calls[<<res'.a, m>>] = 0
                /\ \A m \in DOMAIN res'.body.doc.results :
                      res'.body.doc.results[m].status = "pending"
          /\ \A k \in DOMAIN calls :
                calls'[k] < calls[k] => (k[1] \in DOMAIN db \cup deleted /\ ~SubmitPending(k[1]))
         ]_vars
    /\ [](\A k \in DOMAIN calls :
             calls[k] > 0 => (k[1] \in DOMAIN db \cup deleted /\ ~SubmitPending(k[1])))

\* the 201 of a submit has been returned, one provider call has completed with
\* an error and another call is still running
C11_Witness ==
    /\ res.op = "submit" /\ res.code = 201
    /\ res.a \in DOMAIN db
    /\ \E m \in DOMAIN db[res.a].results : db[res.a].results[m].status = "error"
    /\ \E m \in ModelSet : calls[<<res.a, m>>] > 0

\* C12: a submit that finds none of the requested providers enabled answers
\* 400 and leaves nothing behind: no Aggregate, no Project (also when projectId
\* was omitted), no provider call.
C12_NoProvidersNoTrace ==
    [][(ops' = ops + 1 /\ res'.op = "submit" /\ res'.code = 400 /\ res'.body.error = "providers")
       => (db' = db /\ projects' = projects /\ calls' = calls /\ procs' = procs)]_vars

\* the payload fails validation in one of the ways the claim lists
C13_Rejected(payload) ==
    \/ payload.promptLen = 0
    \/ payload.promptLen > MaxPromptLen
    \/ payload.temperature < 0 \/ payload.temperature > MaxTemperature
    \/ payload.maxTokens < 1 \/ payload.maxTokens > MaxMaxTokens
    \/ \E i \in 1..Len(payload.enabledModels) : payload.enabledModels[i] \notin SeqSet(AllModels)

\* C13: a submit whose payload fails validation answers 400 and is not
\* partially applied: no Project, no Aggregate, no provider call.
C13_InvalidNotApplied ==
    [][\A u \in lim.users, payload \in Payloads(DOMAIN projects, Prevs, RequestsUpTo(lim.req)) :
          (C13_Rejected(payload) /\ generateAIResponse(u, payload)) =>
             /\ res'.code = 400
             /\ db' = db /\ projects' = projects /\ calls' = calls /\ procs' = procs
             /\ nextId' = nextId]_vars

\* a payload was rejected by the validation while an Aggregate and a Project exist
C13_Witness ==
    /\ res.op = "submit" /\ res.code = 400 /\ res.body.error = "validation"
    /\ DOMAIN db # {}
    /\ Len(projects) > 0

C15_ResultShape(r) ==
    \/ /\ r.status = "error"
       /\ r.response = ""
       /\ r.errorMessage # NoMsg
       /\ r.tokens = ZeroTokens
    \/ /\ r.status = "success"
       /\ r.tokens.prompt \in Nat /\ r.tokens.completion \in Nat /\ r.tokens.total \in Nat

\* C15 as stated: the Provider Caller never raises, neither for an upstream
\* failure nor for a provider that is not enabled; it returns an error result
\* with empty text, a message and zero token usage, or a success result whose
\* token counts default to 0.
C15_NeverRaises ==
    \A m \in ModelSet : \A o \in generateSingleModelResponse(m) :
        /\ ~o.thrown
        /\ C15_ResultShape(o.result)
        /\ ~enabled(m) => o.result.status = "error"

\* C15 amended: for an enabled provider the Provider Caller never raises and
\* returns a result of that shape (an upstream answer without a token count
\* gives 0 for it); callOpenRouter turns a provider that is not enabled into an
\* error result too, but the entry point generateSingleModelResponse raises
\* for it.
C15_RaisesOnlyNotEnabled ==
    \A m \in ModelSet :
        /\ \A o \in generateSingleModelResponse(m) :
              /\ o.thrown <=> ~enabled(m)
              /\ ~o.thrown => C15_ResultShape(o.result)
        /\ \A r \in callOpenRouter(m) :
              /\ C15_ResultShape(r)
              /\ ~enabled(m) => r.status = "error"
        /\ (enabled(m) /\ ~(testMode /\ ~hasKey[m])) =>
              \E r \in callOpenRouter(m) :
                 r.status = "success" /\ r.tokens.prompt = 0 /\ r.tokens.total > 0

\* the provider caller was asked for a provider that is not enabled, and for
\* an enabled one whose upstream call failed
C15_Witness ==
    \E a \in DOMAIN db : \E m1, m2 \in DOMAIN db[a].results :
        /\ ~enabled(m1) /\ db[a].results[m1].status = "error"
        /\ enabled(m2) /\ db[a].results[m2].status = "error"

\* the step is the answer 200 of a clearSelection
ClearStep == ops' = ops + 1 /\ res'.op = "clear" /\ res'.code = 200

\* C16: clearSelection sets selectedProvider to null in the persisted record
\* and neither adds nor removes a ProviderResult: the providers with a result,
\* and each result, are the same before and after.
C16_ClearResetsSelection ==
    [][ClearStep =>
          /\ db'[res'.a].selectedModel = NoModel
          /\ db'[res'.a].results = db[res'.a].results]_vars

\* C17 as stated: after clearSelection requestedProviders is the set of
\* providers that still have a result, or, when none has, the provider set
\* the Aggregate was submitted with.
C17_RestoresRequested ==
    [][ClearStep =>
          SeqSet(db'[res'.a].enabledModels) =
              IF DOMAIN db[res'.a].results # {} THEN DOMAIN db[res'.a].results
              ELSE SeqSet(requested[res'.a])]_vars

\* C17 amended: after clearSelection requestedProviders is the set of
\* providers that still have a result, or, when none has, every provider of
\* the provider list.
C17_RestoresExistingOrAll ==
    [][ClearStep =>
          SeqSet(db'[res'.a].enabledModels) =
              IF DOMAIN db[res'.a].results # {} THEN DOMAIN db[res'.a].results
              ELSE ModelSet]_vars

\* the selection was cleared on an Aggregate without any result that had been
\* submitted with fewer providers than the list holds
C17_Witness ==
    /\ res.op = "clear" /\ res.code = 200
    /\ res.a \in DOMAIN db
    /\ DOMAIN db[res.a].results = {}
    /\ SeqSet(requested[res.a]) # ModelSet
    /\ SeqSet(db[res.a].enabledModels) = ModelSet

\* runs on MaxAgg documents
FairInit ==
    /\ Init
    /\ lim.aggs = MaxAgg

\* every handler and every provider call goes on after its await: the upstream
\* call returns or runs into its timeout, the store answers
FairSpec ==
    /\ FairInit
    /\ [][Next]_vars
    /\ \A a \in Ids : \A m \in ModelSet : WF_vars(generateIndependentResponses(a, m))
    /\ WF_vars(\E p \in procs : generateAIResponseRespond(p))
    /\ WF_vars(\E p \in procs : retryFailedSave(p))
    /\ WF_vars(\E p \in procs : retrySingleSave(p))
    /\ WF_vars(\E p \in procs : selectPreferredResponseWrite(p))
    /\ WF_vars(\E p \in procs, projectOk \in BOOLEAN : selectPreferredResponseWrite_v1(p, projectOk))

\* C18: every ProviderResult a submit created pending becomes success or
\* error, unless its Aggregate is deleted or the result removed, whatever the
\* sibling providers do.
C18_PendingResolves ==
    \A a \in Ids : \A m \in ModelSet :
        (/\ a \in DOMAIN db
         /\ m \in DOMAIN db[a].results
         /\ db[a].results[m].status = "pending"
         /\ (SubmitPending(a) \/ calls[<<a, m>>] > 0))
        ~> (\/ a \notin DOMAIN db
            \/ m \notin DOMAIN db[a].results
            \/ db[a].results[m].status \in {"success", "error"})

\* all provider calls of an Aggregate have returned, one with an error and a
\* sibling with success, and no result is pending
C18_Witness ==
    \E a \in DOMAIN db :
        /\ AllCallsDone(a)
        /\ ~SubmitPending(a)
        /\ CountStatus(db[a], "error") >= 1
        /\ CountStatus(db[a], "success") >= 1
        /\ CountStatus(db[a], "pending") = 0

Reads == {"get", "list", "stats"}

\* C19: getStats, get by id and list are pure reads: they leave every
\* Aggregate, every ProviderResult and the provider configuration unchanged.
C19_ReadsArePure ==
    [][(ops' = ops + 1 /\ res'.op \in Reads) =>
          /\ db' = db
          /\ cfg' = cfg
          /\ projects' = projects
          /\ calls' = calls
          /\ procs' = procs]_vars

\* an Aggregate whose stored counters differ from its results was read by id
C19_Witness ==
    /\ res.op = "get" /\ res.code = 200
    /\ res.a \in DOMAIN db
    /\ db[res.a] = res.body.doc
    /\ db[res.a].completedModels # CountStatus(db[res.a], "success")

\* C20: after a successful selectPreferred(id, p) on an Aggregate with a
\* projectId the Project's enabled-provider list is [p].
C20_ProjectFollowsSelection ==
    (/\ SelectedDoc
     /\ res.body.doc.projectId \in DOMAIN projects)
    => projects[res.body.doc.projectId] = <<res.m>>

\* C21: when the Project write triggered by selectPreferred fails, the select
\* still narrows the Aggregate to the selected provider and answers 200 with it.
C21_ProjectFailureTolerated ==
    [][\A p \in procs :
          (selectPreferredResponseWrite_v1(p, FALSE) /\ p.a \in DOMAIN db) =>
              /\ db'[p.a].enabledModels = <<p.m>>
              /\ res'.code = 200
              /\ res'.body = [doc |-> db'[p.a]]]_vars

\* C22: in every reachable state of every Aggregate,
\* completedCount + failedCount <= totalCount.
C22_CountersWithinTotal ==
    \A a \in DOMAIN db : db[a].completedModels + db[a].failedModels <= db[a].totalModels

\* C23: overallStatus is the decision-table value of the persisted counters:
\* completed iff completedCount = totalCount; partial iff both counters are
\* positive and add up to totalCount; failed iff failedCount = totalCount with
\* completedCount = 0; processing otherwise.
C23_StatusOfCounters ==
    \A a \in DOMAIN db :
        LET d == db[a]
            c == d.completedModels
            f == d.failedModels
        IN  d.overallStatus =
                IF c = d.totalModels THEN "completed"
                ELSE IF c + f = d.totalModels /\ c > 0 /\ f > 0 THEN "partial"
                ELSE IF c + f = d.totalModels /\ c = 0 THEN "failed"
                ELSE "processing"

\* C24: endedAt and durationMs are unset while overallStatus is processing, and
\* once written no later operation on the Aggregate changes them.
C24_EndTimeWrittenOnce ==
    /\ [](\A a \in DOMAIN db : db[a].overallStatus = "processing" => db[a].endTime = 0)
    /\ [][\A a \in DOMAIN db \cap DOMAIN db' :
              db[a].endTime # 0 => db'[a].endTime = db[a].endTime]_vars

\* C25: after an Aggregate is created no operation adds a provider key to its
\* results: a provider call still in flight when its result is removed does not
\* re-create it, and no single-model retry creates a result.
C25_NoResultAdded ==
    [][\A a \in DOMAIN db \cap DOMAIN db' :
          DOMAIN db'[a].results \subseteq DOMAIN db[a].results]_vars

\* C26: in every ProviderResult, status = error implies responseText is empty
\* and errorMessage is set, and status = success implies errorMessage is unset.
C26_ResultConsistent ==
    \A a \in DOMAIN db : \A m \in DOMAIN db[a].results :
        LET r == db[a].results[m]
        IN  /\ r.status = "error" => (r.response = "" /\ r.errorMessage # NoMsg)
            /\ r.status = "success" => r.errorMessage = NoMsg

\* C27: at creation totalCount equals the number of distinct requested providers
\* and the number of results created, whose keys are the requested providers;
\* afterwards totalCount changes only by selectPreferred, which sets it to 1.
C27_TotalCount ==
    [][/\ \A a \in DOMAIN db' \ DOMAIN db :
             /\ db'[a].totalModels = Cardinality(SeqSet(requested'[a]))
             /\ db'[a].totalModels = Cardinality(DOMAIN db'[a].results)
             /\ DOMAIN db'[a].results = SeqSet(requested'[a])
       /\ \A a \in DOMAIN db \cap DOMAIN db' :
             db'[a].totalModels # db[a].totalModels =>
                 \E p \in procs : p.op \in Selects /\ p.a = a /\ procs' = procs \ {p}
       /\ \A p \in procs :
             (p.op \in Selects /\ procs' = procs \ {p} /\ p.a \in DOMAIN db /\ res'.code = 200)
                 => db'[p.a].totalModels = 1]_vars

\* C28: whenever a selectPreferred(id, p) whose check found p's result with
\* status success reports success, the persisted Aggregate contains p's result
\* with status success, whatever landed between the check and the write.
C28_SelectAtomic ==
    [][\A p \in procs :
          (/\ p.op \in Selects
           /\ procs' = procs \ {p}
           /\ res'.code = 200
           /\ p.base.results[p.m].status = "success")
          => /\ p.a \in DOMAIN db'
             /\ p.m \in DOMAIN db'[p.a].results
             /\ db'[p.a].results[p.m].status = "success"]_vars

\* C29: when a single-model generate or retry saves its result as the last one
\* in flight on its Aggregate, after a single-model operation for another
\* provider has saved in the meantime, the persisted Aggregate holds both final
\* results and its counters, token total and status reflect both. The case is
\* taken with no provider call of the submit outstanding and every result
\* belonging to a requested provider.
C29_ConcurrentSinglesBothCounted ==
    [][\A p \in procs :
          (/\ p.op \in Singles
           /\ procs' = procs \ {p}
           /\ \E k \in overlapped : k[1] = p.a /\ k[2] = p.m
           /\ \A k \in overlapped :
                 (k[1] = p.a /\ k[2] = p.m) => (k[3] \in ModelSet /\ k[3] # p.m)
           /\ Siblings(p) = {}
           /\ p.a \in DOMAIN db
           /\ ~SubmitPending(p.a) /\ AllCallsDone(p.a)
           /\ DOMAIN db[p.a].results \cup {p.m} \subseteq SeqSet(requested[p.a]))
          => LET d == db'[p.a]
             IN  /\ p.m \in DOMAIN d.results
                 /\ d.results[p.m].status # "pending"
                 /\ \A m \in DOMAIN db[p.a].results \ {p.m} : d.results[m] = db[p.a].results[m]
                 /\ d.completedModels = CountStatus(d, "success")
                 /\ d.failedModels = CountStatus(d, "error")
                 /\ d.totalTokensUsed = SumTokens(d, 1)
                 /\ d.overallStatus = PreSave(d).overallStatus]_vars

\* C30: when completions of provider calls dispatched by submit are the only
\* writes that land on an Aggregate while retryFailed awaits its upstream calls,
\* then after retryFailed has saved, each such sibling's completed result is
\* still present with its completed value and the persisted counters and
\* overallStatus count it.
C30_RetryFailedKeepsSibling ==
    [][\A p \in procs :
          (/\ p.op = "retryFailed"
           /\ procs' = procs \ {p}
           /\ res'.code = 200
           /\ res = Respond(p.base.userId, "retryFailed", p.a, NoModel, 0, NoBody)
           /\ \A k \in overlapped : ~(k[1] = p.a /\ k[2] = p.m)
           /\ \E m \in DOMAIN p.base.results : db[p.a].results[m] # p.base.results[m])
          => LET d == db'[p.a]
             IN  /\ \A m \in DOMAIN p.base.results \ res'.body.called :
                       /\ m \in DOMAIN d.results
                       /\ d.results[m] = db[p.a].results[m]
                 /\ d.completedModels = CountStatus(d, "success")
                 /\ d.failedModels = CountStatus(d, "error")
                 /\ d.overallStatus = PreSave(d).overallStatus]_vars

\* C38: in every reachable state of an Aggregate, selectedProvider is null or
\* names a provider whose result is present on that Aggregate with status
\* success.
C38_SelectedIsSuccess ==
    \A a \in DOMAIN db :
        db[a].selectedModel # NoModel =>
            /\ db[a].selectedModel \in DOMAIN db[a].results
            /\ db[a].results[db[a].selectedModel].status = "success"

\* C33: when a submit dispatches its provider calls, the Provider Caller is
\* invoked exactly once for each provider that has a result on the created
\* Aggregate and for no other provider, and no later step of the submission
\* starts a further call.
C33_OneCallPerProvider ==
    [][/\ \A p \in procs :
             (p.op = "submit" /\ procs' = procs \ {p}) =>
                 \A m \in ModelSet :
                     calls'[<<p.a, m>>] = IF m \in DOMAIN p.base.results THEN 1 ELSE 0
       /\ \A k \in DOMAIN calls :
             calls'[k] > calls[k] =>
                 \E p \in procs : p.op = "submit" /\ p.a = k[1] /\ procs' = procs \ {p}]_vars

\* C35: a provider is enabled iff its credential is configured or the process
\* runs in test mode, getEnabledProviders lists exactly the enabled providers,
\* and no operation changes the provider configuration.
C35_ProviderConfig ==
    /\ [](/\ SeqSet(getEnabledProviders) = {m \in ModelSet : hasKey[m] \/ testMode}
          /\ \A i, j \in 1..Len(getEnabledProviders) :
                i # j => getEnabledProviders[i] # getEnabledProviders[j])
    /\ [][testMode' = testMode /\ hasKey' = hasKey]_vars

\* requests have been served and Aggregates written in a process in which test
\* mode enables a provider that has no credential
C35_Witness ==
    /\ testMode
    /\ \E m \in ModelSet : ~hasKey[m]
    /\ ops = MaxOps
    /\ res.op \in Selects /\ res.code = 200
    /\ \E a \in DOMAIN db : \E m \in DOMAIN db[a].results : db[a].results[m].status = "success"

\* the step sends the 200 of the operation op
Answers(op) == res' # res /\ res'.op = op /\ res'.code = 200

\* C31 as stated: retryFailed, single-model generate and single-model retry
\* return their response only after the provider calls they triggered have
\* completed: when one of them answers, no call of that request is outstanding.
C31_OnlySubmitReturnsEarly ==
    [][\A op \in Singles \cup {"retryFailed"} :
          Answers(op) => ~\E q \in procs' : q.op = op /\ q.a = res'.a /\ q.m = res'.m]_vars

\* C31, amended: submit, single-model generate and single-model retry answer
\* while the provider calls they triggered are outstanding, the result of a
\* single-model operation being pending in the response and in the collection;
\* retryFailed answers in the step that ends its calls and saves their results.
C31_OnlyRetryFailedAwaits ==
    [][/\ Answers("retryFailed") =>
             \E p \in procs :
                 /\ p.op = "retryFailed" /\ p.a = res'.a
                 /\ procs' = procs \ {p}
                 /\ \A m \in res'.body.called :
                       /\ res'.body.doc.results[m].status \in {"success", "error"}
                       /\ db'[p.a].results[m] = res'.body.doc.results[m]
       /\ \A op \in Singles :
             Answers(op) =>
                 /\ \E q \in procs' : q.op = op /\ q.a = res'.a /\ q.m = res'.m
                 /\ res'.body.doc.results[res'.m].status = "pending"
                 /\ db'[res'.a].results[res'.m].status = "pending"
       /\ (res' # res /\ res'.op = "submit" /\ res'.code = 201) =>
             \A m \in DOMAIN res'.body.doc.results : calls'[<<res'.a, m>>] > 0]_vars

\* retryFailed has answered with the results of its calls while a single-model
\* operation that has already answered still awaits its provider call
C31_Witness ==
    /\ res.op = "retryFailed" /\ res.code = 200 /\ res.body.called # {}
    /\ \E p \in procs : p.op \in Singles /\ p.a = res.a

\* C32: when retryFailed answers, every provider it called has status success
\* or error in the Aggregate it returns and in the persisted one, and the
\* counters and overallStatus of both are the ones computed from their results.
C32_RetryFailedAwaitsAll ==
    [][Answers("retryFailed") =>
          LET r == res'.body.doc
              d == db'[res'.a]
          IN  /\ \A m \in res'.body.called :
                    /\ r.results[m].status \in {"success", "error"}
                    /\ d.results[m] = r.results[m]
              /\ r.completedModels = CountStatus(r, "success")
              /\ r.failedModels = CountStatus(r, "error")
              /\ d.completedModels = CountStatus(d, "success")
              /\ d.failedModels = CountStatus(d, "error")
              /\ d.overallStatus = PreSave(d).overallStatus]_vars

\* the operations that take the id of an Aggregate
ByIdOps ==
    {"get", "update", "delete", "retryFailed", "select", "select_v1", "clear",
     "generateSingle", "edit", "deleteSingle", "retrySingle"}

C37_ContextOfOwner ==
    \A m \in DOMAIN sent.messages :
        LET msgs == sent.messages[m]
        IN  \A i \in 1..Len(msgs) :
                msgs[i].role = "user" => msgs[i].content.by = msgs[Len(msgs)].content.by

\* the step is the return of a provider call that submit dispatched for
\* document a and provider m
C34_Returns(a, m) == calls'[<<a, m>>] = calls[<<a, m>>] - 1

\* the current prompt of the call for document a, as a message
C34_Current(a) == [role |-> "user", content |-> dispatch[a].prompt]

\* the previous response named by the submit of document a was found by the lookup
C34_Resolved(a) ==
    /\ dispatch[a].previousResponseId # NoPrev
    /\ sent'.lookup
    /\ dispatch[a].previousResponseId \in DOMAIN db

\* C34 as stated: a provider call whose previous response cannot be looked up is
\* still issued, with the current prompt as its only message; when the previous
\* response is found, its prompt and the same provider's earlier response are
\* prepended, and the current prompt is the last message.
C34_PriorTurnPrepended ==
    [][\A a \in Ids, m \in ModelSet :
          C34_Returns(a, m) =>
             /\ hasKey[m] => m \in DOMAIN sent'.messages
             /\ m \in DOMAIN sent'.messages =>
                   LET msgs == sent'.messages[m]
                       prior == db[dispatch[a].previousResponseId]
                   IN  IF C34_Resolved(a)
                       THEN /\ Len(msgs) = 3
                            /\ msgs[1] = [role |-> "user", content |-> prior.prompt]
                            /\ msgs[2].role = "assistant"
                            /\ msgs[3] = C34_Current(a)
                       ELSE msgs = <<C34_Current(a)>>]_vars

\* the earlier turn of provider m in the document prior: its prompt, and the
\* provider's response when the document has a non-empty one
C34_History(prior, m) ==
    <<[role |-> "user", content |-> prior.prompt]>> \o
        (IF m \in DOMAIN prior.results /\ prior.results[m].response # ""
         THEN <<[role |-> "assistant", content |-> prior.results[m].response]>>
         ELSE <<>>)

\* C34, amended: a provider call whose previous response cannot be looked up is
\* still issued, with the current prompt as its only message; when the previous
\* response is found, its prompt is prepended, followed by the same provider's
\* earlier response only if that response is present and not empty, and the
\* current prompt is the last message.
C34_PriorTurnWhenPresent ==
    [][\A a \in Ids, m \in ModelSet :
          C34_Returns(a, m) =>
             /\ hasKey[m] => m \in DOMAIN sent'.messages
             /\ m \in DOMAIN sent'.messages =>
                   LET msgs == sent'.messages[m]
                       prior == db[dispatch[a].previousResponseId]
                   IN  IF C34_Resolved(a)
                       THEN msgs = C34_History(prior, m) \o <<C34_Current(a)>>
                       ELSE msgs = <<C34_Current(a)>>]_vars

\* a call whose previous response could not be looked up was sent with the
\* current prompt alone and has returned a success
C34_Witness ==
    /\ sent.a \in DOMAIN db
    /\ dispatch[sent.a].previousResponseId # NoPrev
    /\ \/ ~sent.lookup
       \/ dispatch[sent.a].previousResponseId \notin DOMAIN db
    /\ \E m \in DOMAIN sent.messages :
          /\ Len(sent.messages[m]) = 1
          /\ m \in DOMAIN db[sent.a].results
          /\ db[sent.a].results[m].status = "success"

====
